---- MODULE Spec2Model ----
(***************************************************************************)
(* A model of the gitmanager build pipeline (builder/builder.py,           *)
(* builder/views.py, builder/models.py).                                   *)
(*                                                                         *)
(* The git hook view creates CourseUpdate rows and enqueues push_event     *)
(* jobs; huey workers take jobs from the queue, take the per-course task   *)
(* lock and run build_course, which prunes the history, selects the latest *)
(* PENDING update and drives it through git sync, build, the               *)
(* self-containment check, the version-id write, the configuration load    *)
(* and store().                                                            *)
(*                                                                         *)
(* builder.py reads CourseUpdate.Status, update.commit_hash and            *)
(* course.skip_build_failsafes; the model takes these fields as builder.py *)
(* uses them (models.py in src/ is the revision before they were added).   *)
(***************************************************************************)
EXTENDS Integers, Sequences, FiniteSets, TLC

\* ------------------------------------------------------------------ bounds

\* The courses of the deployment (Course rows) and the huey worker threads.
Courses == {"c1", "c2"}
Workers == {"w1", "w2"}

\* Accepted hook requests in one behaviour.
MaxTriggers == 2

\* builder.py:482  [10:]  -- rows kept by the prune of build_course.
HistoryLimit == 10

\* ------------------------------------------------------------- data model

\* models.py:55-60
PENDING == "PENDING"
RUNNING == "RUNNING"
SUCCESS == "SUCCESS"
FAILED  == "FAILED"
SKIPPED == "SKIPPED"
UpdateStatus == {PENDING, RUNNING, SUCCESS, FAILED, SKIPPED}

\* access.config.ConfigSource, as builder.py uses it.
BUILD   == "BUILD"
STORE   == "STORE"
PUBLISH == "PUBLISH"

VARIABLES
    updates,     \* the CourseUpdate table in request_time order:
                 \* Seq of [course, status, alive]; alive = FALSE once deleted
    triggersLeft,\* hook requests the environment may still send
    inflight,    \* [Courses -> Nat]: hooks that created their row and have
                 \* not yet called push_event
    queue,       \* [Jobs -> Nat]: the huey queue (and retry schedule)
    tasklocks,   \* huey lock_task keys held: a set of course keys
    worker,      \* [Workers -> record]: what each huey worker is executing
    fs,          \* [Courses -> [BUILD, STORE, PUBLISH -> [dir, defaults, version]]]
    filelock,    \* [Courses -> [STORE, PUBLISH -> holder or "free"]]
    pub,         \* [Publishers -> record]: the publish() call of each caller
    copyback,    \* [Courses -> record]: the copy-back threads of copys_async
    buildcall,   \* one call of the build stage: its inputs and what the
                 \* executor (build_module.build) received
    hookcall     \* the last request hook() handled and the status it answered

vars == <<updates, triggersLeft, inflight, queue, tasklocks, worker, fs, filelock,
          pub, copyback, buildcall, hookcall>>

\* ----------------------------------------------------------------- helpers

Max(S) == CHOOSE x \in S : \A y \in S : y <= x

\* The job arguments push_event receives from hook (views.py:287).
Params == [skip_git : BOOLEAN, skip_build : BOOLEAN, skip_notify : BOOLEAN]
Jobs == [course : Courses, params : Params]
NoJob == [course |-> "none",
          params |-> [skip_git |-> FALSE, skip_build |-> FALSE, skip_notify |-> FALSE]]

\* The Course row as build_course reads it (builder.py:479).
CourseConfigs == [skip_build_failsafes : BOOLEAN]
NoCourse == [skip_build_failsafes |-> FALSE]

EmptyTree == [dir |-> 0, defaults |-> 0, version |-> 0]

\* What the else clause of build_course read and how notify_update went;
\* nothing before the clause has run.
NoNotify ==
    [update_automatically |-> FALSE, remote_id |-> FALSE, frontend_url |-> FALSE,
     outcome |-> "none"]

IdleWorker ==
    [pc |-> "idle", job |-> NoJob, course |-> NoCourse, pending |-> {},
     update |-> 0, status |-> "none", tree |-> {}, config |-> "none",
     version_id |-> 0,
     notified |-> FALSE, notify |-> NoNotify, wrote |-> {},
     failed |-> "none", configured |-> "none", task_error |-> FALSE]

\* Rows of course c that exist (have not been deleted).
CourseRows(c) == {i \in DOMAIN updates : updates[i].course = c /\ updates[i].alive}

\* Rows of the same course requested later than row i.
NewerRows(i) == {k \in CourseRows(updates[i].course) : k > i}

\* No build stage is being followed; hook() has not been called.
NoBuild == [pc |-> "none"]
NoHookCall == [status |-> 0, course |-> "none", request |-> "none"]

\* ------------------------------------------------------------ views.hook

\* What a hook request carries, as far as hook() looks at it: the method,
\* whether the user is logged in and has write access, the git service of
\* the event header, whether the course has a webhook secret and the request
\* verifies against it, and the pushed branch (none: no payload).
Request(method, authenticated, access, service, secret, verified, branch) ==
    [method |-> method, authenticated |-> authenticated, access |-> access,
     service |-> service, secret |-> secret, verified |-> verified,
     branch |-> branch]

Requests ==
    { Request("POST", TRUE, TRUE, "unknown", TRUE, FALSE, "none"),
      Request("POST", TRUE, FALSE, "unknown", TRUE, FALSE, "none"),
      Request("POST", FALSE, FALSE, "gitlab", TRUE, TRUE, "same"),
      Request("POST", FALSE, FALSE, "gitlab", TRUE, FALSE, "same"),
      Request("POST", FALSE, FALSE, "github", TRUE, TRUE, "other"),
      Request("POST", FALSE, FALSE, "github", FALSE, FALSE, "none"),
      Request("POST", FALSE, FALSE, "unknown", TRUE, TRUE, "same"),
      Request("GET", TRUE, TRUE, "gitlab", TRUE, TRUE, "same") }

\* A hook() without the comparison of the pushed branch.
HookRejectsWithoutBranch(req) ==
    IF req.method # "POST" THEN 405
    ELSE IF req.authenticated
         THEN (IF ~req.access THEN 403 ELSE 0)
    ELSE IF req.service = "unknown" THEN 400
    ELSE IF req.secret /\ ~req.verified THEN 403
    ELSE 0

\* views.py:235-277: the HTTP status hook() answers with before it creates
\* anything; 0 when it goes on to create the update.
HookRejects(req) ==
    IF req.method # "POST" THEN 405
    ELSE IF req.authenticated
         THEN (IF ~req.access THEN 403 ELSE 0)
    ELSE IF req.service = "unknown" THEN 400
    ELSE IF req.secret /\ ~req.verified THEN 403
    ELSE IF req.branch = "other" THEN 400
    ELSE 0

\* views.py:233-282: a request hook() does not reject creates an update;
\* course.updates.create(...) leaves status at its default, PENDING.
HookCreate(c, req) ==
    /\ triggersLeft > 0
    /\ HookRejects(req) = 0
    /\ triggersLeft' = triggersLeft - 1
    /\ updates' = Append(updates, [course |-> c, status |-> PENDING, alive |-> TRUE])
    /\ inflight' = [inflight EXCEPT ![c] = @ + 1]
    /\ UNCHANGED <<queue, tasklocks, worker, fs, filelock, pub, copyback, buildcall, hookcall>>

\* views.py:233-282, with the request and the answer on record: a rejected
\* request returns its status before anything is created.
HookCall(c, req) ==
    /\ HookRejects(req) = 0 => triggersLeft > 0
    /\ hookcall' = [status |-> HookRejects(req), course |-> c, request |-> req]
    /\ IF HookRejects(req) = 0
       THEN /\ triggersLeft' = triggersLeft - 1
            /\ updates' = Append(updates,
                                 [course |-> c, status |-> PENDING, alive |-> TRUE])
            /\ inflight' = [inflight EXCEPT ![c] = @ + 1]
       ELSE UNCHANGED <<updates, triggersLeft, inflight>>
    /\ UNCHANGED <<queue, tasklocks, worker, fs, filelock, pub, copyback, buildcall>>

\* views.py:287: a flag is set when its request parameter is "on" or "true";
\* a parameter that is absent leaves push_event's default, False.
ParseFlag(v) == v = "on" \/ v = "true"

\* The request parameters skip_git, skip_build, skip_notify of a hook call.
RawParams ==
    { <<"absent", "absent", "absent">>,
      <<"on", "true", "false">>,
      <<"off", "absent", "on">> }

\* views.py:284-291
ParseParams(raw) ==
    [skip_git |-> ParseFlag(raw[1]), skip_build |-> ParseFlag(raw[2]),
     skip_notify |-> ParseFlag(raw[3])]

\* views.py:284-293: parse the parameters and enqueue push_event.
HookEnqueue(c, p) ==
    /\ inflight[c] > 0
    /\ queue' = [queue EXCEPT ![[course |-> c, params |-> p]] = @ + 1]
    /\ inflight' = [inflight EXCEPT ![c] = @ - 1]
    /\ UNCHANGED <<updates, triggersLeft, tasklocks, worker, fs, filelock, pub, copyback,
                   buildcall, hookcall>>

\* ------------------------------------------------------ builder.push_event

\* A huey worker takes a job from the queue and starts push_event.
Dequeue(w, j) ==
    /\ worker[w].pc = "idle"
    /\ queue[j] > 0
    /\ queue' = [queue EXCEPT ![j] = @ - 1]
    /\ worker' = [worker EXCEPT ![w] = [IdleWorker EXCEPT !.pc = "lock", !.job = j]]
    /\ UNCHANGED <<updates, triggersLeft, inflight, tasklocks, fs, filelock, pub, copyback,
                   buildcall, hookcall>>

\* lock_task without mutual exclusion: the lock can always be entered.
TaskLockAlwaysFree(c) == TRUE

\* builder.py:457: lock_task(f"build-{course_key}") can be entered.
TaskLockFree(c) == c \notin tasklocks

\* builder.py:457: the lock is taken and build_course is called.
AcquireTaskLock(w) ==
    /\ worker[w].pc = "lock"
    /\ TaskLockFree(worker[w].job.course)
    /\ tasklocks' = tasklocks \cup {worker[w].job.course}
    /\ worker' = [worker EXCEPT ![w].pc = "prune"]
    /\ UNCHANGED <<updates, triggersLeft, inflight, queue, fs, filelock, pub, copyback,
                   buildcall, hookcall>>

\* builder.py:467-468: the lock is held: TaskLockedException -> RetryTask.
Contended(w) ==
    /\ worker[w].pc = "lock"
    /\ ~TaskLockFree(worker[w].job.course)
    /\ worker' = [worker EXCEPT ![w].pc = "retry"]
    /\ UNCHANGED <<updates, triggersLeft, inflight, queue, tasklocks, fs, filelock, pub, copyback,
                   buildcall, hookcall>>

\* A retry that loses the job: the worker is free, nothing is enqueued.
Dropped(w) ==
    /\ worker[w].pc = "retry"
    /\ worker' = [worker EXCEPT ![w] = IdleWorker]
    /\ UNCHANGED <<updates, triggersLeft, inflight, queue, tasklocks, fs, filelock, pub, copyback,
                   buildcall, hookcall>>

\* builder.py:442,468: huey answers RetryTask by enqueueing the job again
\* (after retry_delay); the worker is free.
Requeue(w) ==
    /\ worker[w].pc = "retry"
    /\ queue' = [queue EXCEPT ![worker[w].job] = @ + 1]
    /\ worker' = [worker EXCEPT ![w] = IdleWorker]
    /\ UNCHANGED <<updates, triggersLeft, inflight, tasklocks, fs, filelock, pub, copyback,
                   buildcall, hookcall>>

\* A job that ends and leaves the lock of its course taken.
FinishKeepsLock(w) ==
    /\ tasklocks' = tasklocks
    /\ worker' = [worker EXCEPT ![w] = IdleWorker]

\* build_course returns (or raises): lock_task's context manager releases
\* the lock and the job is over.
Finish(w) ==
    /\ tasklocks' = tasklocks \ {worker[w].job.course}
    /\ worker' = [worker EXCEPT ![w] = IdleWorker]

\* ----------------------------------------------------- builder.build_course

Course(w) == worker[w].job.course

\* A run that works in BUILD whatever the course says.
BuildSourceAlwaysBuild(w) == BUILD

\* builder.py:508-513: the tree the run works in.
BuildSource(w) ==
    IF worker[w].course.skip_build_failsafes THEN PUBLISH ELSE BUILD

\* A write of the run of worker w to one artifact of a tree of its course.
WriteTree(w, src, field, value) ==
    fs' = [fs EXCEPT ![Course(w)][src][field] = value]

\* A prune that slices one row later ([11:]).
BeyondHistoryOffByOne(i) == Cardinality(NewerRows(i)) > HistoryLimit

\* builder.py:482: order_by("-request_time")[10:] -- the rows with at least
\* HistoryLimit later rows of the same course.
BeyondHistory(i) == Cardinality(NewerRows(i)) >= HistoryLimit

\* builder.py:479-484: read the course, delete all but the latest 10 updates.
Prune(w, cfg) ==
    /\ worker[w].pc = "prune"
    /\ worker' = [worker EXCEPT ![w].pc = "fetch", ![w].course = cfg]
    /\ updates' =
          [i \in DOMAIN updates |->
              IF /\ updates[i].course = Course(w)
                 /\ updates[i].alive
                 /\ BeyondHistory(i)
              THEN [updates[i] EXCEPT !.alive = FALSE]
              ELSE updates[i]]
    /\ UNCHANGED <<triggersLeft, inflight, queue, tasklocks, fs, filelock, pub, copyback,
                   buildcall, hookcall>>

\* A fetch without the status filter: every row of the course.
AnyStatusRows(c) == CourseRows(c)

\* builder.py:486: the PENDING rows of the course.
PendingRows(c) == {i \in CourseRows(c) : updates[i].status = PENDING}

\* A build_course that goes on without a pending update.
NeverReturnsEarly(rows) == FALSE

\* builder.py:489-490: if len(updates) == 0: return
NothingPending(rows) == rows = {}

\* builder.py:486-490: fetch the pending updates; return when there are none.
Fetch(w) ==
    /\ worker[w].pc = "fetch"
    /\ IF NothingPending(PendingRows(Course(w)))
       THEN Finish(w)
       ELSE /\ worker' = [worker EXCEPT ![w].pc = "skip",
                                        ![w].pending = PendingRows(Course(w))]
            /\ UNCHANGED tasklocks
    /\ UNCHANGED <<updates, triggersLeft, inflight, queue, fs, filelock, pub, copyback,
                   buildcall, hookcall>>

\* A selection of the first fetched row (updates[0]) instead of the last.
Earliest(rows) == CHOOSE x \in rows : \A y \in rows : x <= y

\* builder.py:486,497: order_by("request_time"), updates[-1].
Latest(rows) == Max(rows)

\* builder.py:493-497: every fetched update but the last is saved SKIPPED.
SkipOlder(w) ==
    /\ worker[w].pc = "skip"
    /\ LET last == Latest(worker[w].pending)
       IN /\ updates' = [i \in DOMAIN updates |->
                            IF i \in worker[w].pending \ {last}
                            THEN [updates[i] EXCEPT !.status = SKIPPED]
                            ELSE updates[i]]
          /\ worker' = [worker EXCEPT ![w].pc = "run", ![w].update = last]
    /\ UNCHANGED <<triggersLeft, inflight, queue, tasklocks, fs, filelock, pub, copyback,
                   buildcall, hookcall>>

\* builder.py:505-506: update.status = RUNNING; update.save().
MarkRunning(w) ==
    /\ worker[w].pc = "run"
    /\ updates' = [updates EXCEPT ![worker[w].update].status = RUNNING]
    /\ worker' = [worker EXCEPT ![w].pc = "git", ![w].status = RUNNING]
    /\ UNCHANGED <<triggersLeft, inflight, queue, tasklocks, fs, filelock, pub, copyback,
                   buildcall, hookcall>>

\* builder.py:515-540: git sync, local copy or neither; a failed sync returns.
GitSync(w, out) ==
    /\ worker[w].pc = "git"
    /\ IF worker[w].job.params.skip_git
       THEN /\ worker' = [worker EXCEPT ![w].pc = "build"]
            /\ UNCHANGED fs
       ELSE   CASE out = "failed" ->
                     /\ worker' = [worker EXCEPT ![w].pc = "final",
                                      ![w].failed = "git",
                                      ![w].wrote = @ \cup {BuildSource(w)}]
                     /\ UNCHANGED fs
                [] out = "synced" ->
                     /\ worker' = [worker EXCEPT ![w].pc = "build",
                                      ![w].wrote = @ \cup {BuildSource(w)}]
                     /\ WriteTree(w, BuildSource(w), "dir", worker[w].update)
                [] out = "copied" ->
                     /\ worker' = [worker EXCEPT ![w].pc = "build",
                                      ![w].wrote = @ \cup {BuildSource(w)}]
                     /\ WriteTree(w, BuildSource(w), "dir", worker[w].update)
                [] out = "no_origin" ->
                     /\ worker' = [worker EXCEPT ![w].pc = "build"]
                     /\ UNCHANGED fs
    /\ UNCHANGED <<updates, triggersLeft, inflight, queue, tasklocks, filelock, pub, copyback,
                   buildcall, hookcall>>

\* A build stage whose failure does not end the run.
AfterBuildGoesOn(build_status) == "check"

\* builder.py:557-559: if not build_status: return
AfterBuild(build_status) == IF build_status THEN "check" ELSE "final"

\* builder.py:544-561 and build(): the executor runs in build_path, unless
\* the build is skipped or the image is empty (builder.py:155-157).
Build(w, out) ==
    /\ worker[w].pc = "build"
    /\ IF worker[w].job.params.skip_build
       THEN /\ worker' = [worker EXCEPT ![w].pc = "check"]
            /\ UNCHANGED fs
       ELSE   CASE out = "no_image" ->
                     /\ worker' = [worker EXCEPT ![w].pc = "check"]
                     /\ UNCHANGED fs
                [] out = "built" ->
                     /\ worker' = [worker EXCEPT ![w].pc = AfterBuild(TRUE),
                                      ![w].wrote = @ \cup {BuildSource(w)}]
                     /\ WriteTree(w, BuildSource(w), "dir", worker[w].update)
                [] out = "failed" ->
                     /\ worker' = [worker EXCEPT ![w].pc = AfterBuild(FALSE),
                                      ![w].failed = "build",
                                      ![w].wrote = @ \cup {BuildSource(w)}]
                     /\ WriteTree(w, BuildSource(w), "dir", worker[w].update)
    /\ UNCHANGED <<updates, triggersLeft, inflight, queue, tasklocks, filelock, pub, copyback,
                   buildcall, hookcall>>

\* An entry of the built tree below its root: a regular file, or a symlink
\* with an absolute or relative target that resolves inside or outside the
\* tree, to a file or to a directory.
RegularFile == [link |-> FALSE, abs |-> FALSE, inside |-> TRUE, dir |-> FALSE]
Symlink(abs, inside, dir) == [link |-> TRUE, abs |-> abs, inside |-> inside, dir |-> dir]

\* The trees a build may leave behind: regular files and at most one symlink.
Trees ==
    { {RegularFile},
      {RegularFile, Symlink(FALSE, TRUE, FALSE)},
      {RegularFile, Symlink(FALSE, FALSE, FALSE)},
      {RegularFile, Symlink(TRUE, TRUE, FALSE)},
      {RegularFile, Symlink(TRUE, FALSE, TRUE)} }

\* builder.py:257-259: os.walk lists a symlink to a directory among the
\* directories (and does not descend into it); the loop reads `files` only.
WalkedFiles(tree) == {e \in tree : ~e.dir}

\* builder.py:255-265
is_self_contained(tree) ==
    \A e \in WalkedFiles(tree) :
        /\ e.inside                   \* is_subpath(resolve(), spath)
        /\ ~(e.link /\ e.abs)         \* islink and isabs(readlink)

\* A containment check whose verdict does not end the run.
AfterCheckGoesOn(value) == "version"

\* builder.py:568-570: if not value: return
AfterCheck(value) == IF value THEN "version" ELSE "final"

\* builder.py:567-570: a tree that fails the check ends the run.
Check(w, t) ==
    /\ worker[w].pc = "check"
    /\ worker' = [worker EXCEPT
                      ![w].pc = AfterCheck(is_self_contained(t)),
                      ![w].tree = t]
    /\ UNCHANGED <<updates, triggersLeft, inflight, queue, tasklocks, fs, filelock, pub, copyback,
                   buildcall, hookcall>>

\* builder.py:75-79: the commit hash of the tree (the one the version-id file
\* already holds when HEAD has not moved) or a fresh random id.
VersionIds(w) ==
    {worker[w].update} \cup ({fs[Course(w)][BuildSource(w)].version} \ {0})

\* builder.py:576-578: write the version id of the working tree.
WriteVersionId(w) ==
    /\ worker[w].pc = "version"
    /\ \E v \in VersionIds(w) : WriteTree(w, BuildSource(w), "version", v)
    /\ worker' = [worker EXCEPT ![w].pc = "config",
                                ![w].wrote = @ \cup {BuildSource(w)}]
    /\ UNCHANGED <<updates, triggersLeft, inflight, queue, tasklocks, filelock, pub, copyback,
                   buildcall, hookcall>>

\* builder.py:601-605: store() is called unless skip_build_failsafes.
AfterConfig(w) ==
    IF worker[w].course.skip_build_failsafes THEN "success" ELSE "store"

\* A configuration load whose ValidationError branch does not return.
AfterLoadNoReturn(w, out) == IF out # "ConfigError" THEN AfterConfig(w) ELSE "final"

\* builder.py:584-589: a ConfigError is re-raised (to the except clause), a
\* ValidationError returns; both lead to the finally clause.
AfterLoad(w, out) == IF out = "ok" THEN AfterConfig(w) ELSE "final"

\* builder.py:581-589: CourseConfig.get and get_exercise_list.
LoadConfig(w, out) ==
    /\ worker[w].pc = "config"
    /\ worker' = [worker EXCEPT
                      ![w].pc = AfterLoad(w, out),
                      ![w].config = out,
                      ![w].version_id = fs[Course(w)][BuildSource(w)].version]
    /\ UNCHANGED <<updates, triggersLeft, inflight, queue, tasklocks, fs, filelock, pub, copyback,
                   buildcall, hookcall>>

\* ------------------------------------------------------------ builder.store

\* A store() that goes on to the lock whatever configure_graders reports.
AfterConfigureAlwaysStores(errors) == "store_lock"

\* builder.py:281-284, 603-605: errors make store() return False, and
\* build_course returns.
AfterConfigure(errors) == IF errors THEN "final" ELSE "store_lock"

\* builder.py:280-284: configure_graders; any error makes store() return False.
StoreConfigure(w, errors) ==
    /\ worker[w].pc = "store"
    /\ worker' = [worker EXCEPT
                      ![w].pc = AfterConfigure(errors),
                      ![w].configured = IF errors THEN "errors" ELSE "ok"]
    /\ UNCHANGED <<updates, triggersLeft, inflight, queue, tasklocks, fs, filelock, pub, copyback,
                   buildcall, hookcall>>

\* A store() that goes on to write without waiting for the lock to be free.
StoreLockNoWait(w) ==
    /\ worker[w].pc = "store_lock"
    /\ filelock' = [filelock EXCEPT ![Course(w)][STORE] = w]
    /\ worker' = [worker EXCEPT ![w].pc = "store_rm"]
    /\ UNCHANGED <<updates, triggersLeft, inflight, queue, tasklocks, fs, pub, copyback,
                   buildcall, hookcall>>

\* builder.py:291: FileLock(store_path, timeout=...) is acquired.
StoreLock(w) ==
    /\ worker[w].pc = "store_lock"
    /\ filelock[Course(w)][STORE] = "free"
    /\ filelock' = [filelock EXCEPT ![Course(w)][STORE] = w]
    /\ worker' = [worker EXCEPT ![w].pc = "store_rm"]
    /\ UNCHANGED <<updates, triggersLeft, inflight, queue, tasklocks, fs, pub, copyback,
                   buildcall, hookcall>>

\* A store() that gives up silently when the lock does not come free and
\* reports success.
StoreLockTimeoutSilent(w) ==
    /\ worker[w].pc = "store_lock"
    /\ filelock[Course(w)][STORE] # "free"
    /\ worker' = [worker EXCEPT ![w].pc = "success", ![w].failed = "lock"]
    /\ UNCHANGED <<updates, triggersLeft, inflight, queue, tasklocks, fs, filelock, pub, copyback,
                   buildcall, hookcall>>

\* builder.py:291: the lock is still held by someone else when the timeout
\* ends: FileLock raises, build_course's except clause takes over.
StoreLockTimeout(w) ==
    /\ worker[w].pc = "store_lock"
    /\ filelock[Course(w)][STORE] # "free"
    /\ worker' = [worker EXCEPT ![w].pc = "final", ![w].failed = "lock"]
    /\ UNCHANGED <<updates, triggersLeft, inflight, queue, tasklocks, fs, filelock, pub, copyback,
                   buildcall, hookcall>>

\* builder.py:298: rm_except removes the stored files but the static subtree.
StoreRemove(w) ==
    /\ worker[w].pc = "store_rm"
    /\ WriteTree(w, STORE, "dir", 0)
    /\ worker' = [worker EXCEPT ![w].pc = "store_copy",
                                ![w].wrote = @ \cup {STORE}]
    /\ UNCHANGED <<updates, triggersLeft, inflight, queue, tasklocks, filelock, pub, copyback,
                   buildcall, hookcall>>

\* builder.py:302-355: rsync of the static subtree, copy of the index file and
\* of the exercise files.
StoreCopy(w) ==
    /\ worker[w].pc = "store_copy"
    /\ WriteTree(w, STORE, "dir", worker[w].update)
    /\ worker' = [worker EXCEPT ![w].pc = "store_defaults",
                                ![w].wrote = @ \cup {STORE}]
    /\ UNCHANGED <<updates, triggersLeft, inflight, queue, tasklocks, filelock, pub, copyback,
                   buildcall, hookcall>>

\* builder.py:357-358: the exercise-defaults file.
StoreDefaults(w) ==
    /\ worker[w].pc = "store_defaults"
    /\ WriteTree(w, STORE, "defaults", worker[w].update)
    /\ worker' = [worker EXCEPT ![w].pc = "store_version",
                                ![w].wrote = @ \cup {STORE}]
    /\ UNCHANGED <<updates, triggersLeft, inflight, queue, tasklocks, filelock, pub, copyback,
                   buildcall, hookcall>>

\* builder.py:360-368: the version-id file, when the configuration has a
\* version id; the lock is released at the end of the with block.
StoreVersion(w) ==
    /\ worker[w].pc = "store_version"
    /\ IF worker[w].version_id # 0
       THEN WriteTree(w, STORE, "version", worker[w].version_id)
       ELSE UNCHANGED fs
    /\ filelock' = [filelock EXCEPT ![Course(w)][STORE] = "free"]
    /\ worker' = [worker EXCEPT ![w].pc = "success",
                                ![w].wrote = @ \cup {STORE}]
    /\ UNCHANGED <<updates, triggersLeft, inflight, queue, tasklocks, pub, copyback,
                   buildcall, hookcall>>

\* ------------------------------------------- build_course: the ways out

\* The steps of the try block (builder.py:504-610) after the status is saved.
TryPcs ==
    {"git", "build", "check", "version", "config", "store", "store_rm",
     "store_copy", "store_defaults", "store_version"}

\* builder.py:611-613: a stage raises (git, the executor, the filesystem, a
\* collaborator): the except clause logs and the finally clause follows.
\* A FileLock held by the run is released by its with block.
StageRaises(w) ==
    /\ worker[w].pc \in TryPcs
    /\ worker' = [worker EXCEPT ![w].pc = "final", ![w].failed = "raised"]
    /\ filelock' = [filelock EXCEPT ![Course(w)][STORE] =
                       IF @ = w THEN "free" ELSE @]
    /\ UNCHANGED <<updates, triggersLeft, inflight, queue, tasklocks, fs, pub, copyback,
                   buildcall, hookcall>>

\* builder.py:607-610: update.status = SUCCESS (in memory; saved in finally).
MarkSuccess(w) ==
    /\ worker[w].pc = "success"
    /\ worker' = [worker EXCEPT ![w].pc = "notify", ![w].status = SUCCESS]
    /\ UNCHANGED <<updates, triggersLeft, inflight, queue, tasklocks, fs, filelock, pub, copyback,
                   buildcall, hookcall>>

\* An else clause that notifies even when the job asked to skip it.
NotifyCalledDespiteSkip(update_automatically, remote_id, skip_notify, frontend_url) ==
    update_automatically /\ remote_id /\ frontend_url

\* builder.py:615-625: notify_update is called when the course updates
\* automatically, has a remote id, the job did not ask to skip it and
\* FRONTEND_URL is set.
NotifyCalled(update_automatically, remote_id, skip_notify, frontend_url) ==
    update_automatically /\ remote_id /\ ~skip_notify /\ frontend_url

\* How a call of notify_update can go: the frontend accepts; the post
\* fails or the frontend answers with an error (208-252: logged, and
\* mailed when email_on_error); the answer is not of the expected shape and
\* notify_update raises.
NotifyOutcomes == {"ok", "failed", "raised"}

\* builder.py:614-627: the else clause. It runs after the status was set to
\* SUCCESS; whatever notify_update does, the finally clause follows.
Notify(w, update_automatically, remote_id, frontend_url, out) ==
    /\ worker[w].pc = "notify"
    /\    LET called == NotifyCalled(update_automatically, remote_id,
                                     worker[w].job.params.skip_notify,
                                     frontend_url)
          IN worker' = [worker EXCEPT
                           ![w].pc = "final",
                           ![w].notified = called,
                           ![w].notify =
                               [update_automatically |-> update_automatically,
                                remote_id |-> remote_id,
                                frontend_url |-> frontend_url,
                                outcome |-> IF called THEN out ELSE "none"]]
    /\ UNCHANGED <<updates, triggersLeft, inflight, queue, tasklocks, fs, filelock, pub, copyback,
                   buildcall, hookcall>>

\* A finally clause that saves the status as it is.
StatusAsIs(status) == status

\* builder.py:629-630: a status that is not SUCCESS becomes FAILED.
TerminalStatus(status) == IF status # SUCCESS THEN FAILED ELSE status

\* builder.py:628-638: the finally clause saves the terminal status.
Finalize(w) ==
    /\ worker[w].pc = "final"
    /\ updates' = [updates EXCEPT
                      ![worker[w].update].status = TerminalStatus(worker[w].status)]
    /\ worker' = [worker EXCEPT ![w].pc = "clean",
                                ![w].status = TerminalStatus(worker[w].status)]
    /\ UNCHANGED <<triggersLeft, inflight, queue, tasklocks, fs, filelock, pub, copyback,
                   buildcall, hookcall>>

\* How the cleanup can go: clean() succeeds, clean() reports a failure
\* (645-647: return), load_meta or clean() raises (650-652: logged).
CleanOutcomes == {"cleaned", "failed", "raised"}

\* A cleanup whose exception is not caught.
PropagatesCleanError(notify_outcome, clean_outcome) ==
    \/ notify_outcome = "raised" /\ clean_outcome # "failed"
    \/ clean_outcome = "raised"

\* builder.py:624-660: what leaves build_course as an exception. An
\* exception of the cleanup is caught at 650; one that notify_update raised
\* in the else clause is on its way out while the finally clause runs, and
\* the return at 647 of a cleanup that failed discards it.
Propagates(notify_outcome, clean_outcome) ==
    notify_outcome = "raised" /\ clean_outcome # "failed"

\* builder.py:640-660: git clean of the working tree; whatever it does
\* (succeeds, fails, raises), build_course is over: it returns, or the
\* exception of the else clause goes on to huey.
Clean(w, out) ==
    /\ worker[w].pc = "clean"
    /\ tasklocks' = tasklocks \ {worker[w].job.course}
    /\ worker' = [worker EXCEPT
                      ![w] = [IdleWorker EXCEPT
                                 !.task_error =
                                     Propagates(worker[w].notify.outcome, out)]]
    /\ UNCHANGED <<updates, triggersLeft, inflight, queue, fs, filelock, pub, copyback,
                   buildcall, hookcall>>

\* ---------------------------------------------------------- builder.publish

\* The callers of publish() and the calls one caller makes in a behaviour.
Publishers == {"p1", "p2"}
MaxPublishes == 2

IdlePublisher ==
    [pc |-> "idle", course |-> "none", config |-> "none", errors |-> {},
     result |-> "none", linked |-> FALSE,
     call |-> 0, promoted |-> {}, raised |-> {}]

\* copys_async: the copy-back threads of a course that wait for the STORE
\* lock, and where the one that holds it is.
IdleCopy == [waiting |-> 0, pc |-> "idle"]

\* A tree whose three artifacts belong to version v.
Tree(v) == [dir |-> v, defaults |-> v, version |-> v]

\* Versions whose stored configuration CourseConfig.get fails to load.
Broken == {3}

\* builder.py:388,413: CourseConfig.get(course_key, source) loads.
Loads(c, src) == fs[c][src].dir # 0 /\ fs[c][src].dir \notin Broken

\* builder.py:371-382: publish(course_key) is called.
PublishStart(p, c) ==
    /\ pub[p].pc = "idle"
    /\ pub[p].call < MaxPublishes
    /\ pub' = [pub EXCEPT ![p].pc = "exists", ![p].course = c,
                          ![p].config = "none", ![p].errors = {},
                          ![p].result = "none", ![p].linked = FALSE,
                          ![p].call = @ + 1]
    /\ UNCHANGED <<updates, triggersLeft, inflight, queue, tasklocks, worker, fs,
                   filelock, copyback, buildcall, hookcall>>

\* builder.py:384: Path(store_path).exists()
PublishExists(p) ==
    /\ pub[p].pc = "exists"
    /\ pub' = [pub EXCEPT ![p].pc =
                  IF fs[pub[p].course][STORE].dir # 0 THEN "versions" ELSE "prod"]
    /\ UNCHANGED <<updates, triggersLeft, inflight, queue, tasklocks, worker, fs,
                   filelock, copyback, buildcall, hookcall>>

\* builder.py:385: a version-id file that does not exist forces the promotion.
PublishVersions(p) ==
    /\ pub[p].pc = "versions"
    /\ pub' = [pub EXCEPT ![p].pc =
                  IF \/ fs[pub[p].course][PUBLISH].version = 0
                     \/ fs[pub[p].course][STORE].version = 0
                  THEN "store_lock" ELSE "read"]
    /\ UNCHANGED <<updates, triggersLeft, inflight, queue, tasklocks, worker, fs,
                   filelock, copyback, buildcall, hookcall>>

\* A comparison that finds every pair of version ids different.
AlwaysDiffers(prod, store) == TRUE

\* builder.py:385: readfile(prod_version_path) != readfile(store_version_path)
Differs(prod, store) == prod # store

\* builder.py:385: readfile(prod_version_path) != readfile(store_version_path);
\* reading a file that is gone raises out of publish().
PublishRead(p) ==
    /\ pub[p].pc = "read"
    /\ LET prod == fs[pub[p].course][PUBLISH].version
           store == fs[pub[p].course][STORE].version
       IN pub' = IF prod = 0 \/ store = 0
                 THEN [pub EXCEPT ![p].pc = "idle", ![p].result = "file_error",
                                  ![p].raised = @ \cup {pub[p].call}]
                 ELSE [pub EXCEPT ![p].pc =
                          IF Differs(prod, store) THEN "store_lock" ELSE "prod"]
    /\ UNCHANGED <<updates, triggersLeft, inflight, queue, tasklocks, worker, fs,
                   filelock, copyback, buildcall, hookcall>>

\* builder.py:386: with FileLock(store_path) -- waits until the lock is free.
PublishLock(p) ==
    /\ pub[p].pc = "store_lock"
    /\ filelock[pub[p].course][STORE] = "free"
    /\ filelock' = [filelock EXCEPT ![pub[p].course][STORE] = p]
    /\ pub' = [pub EXCEPT ![p].pc = "load"]
    /\ UNCHANGED <<updates, triggersLeft, inflight, queue, tasklocks, worker, fs,
                   copyback, buildcall, hookcall>>

\* A try statement whose else clause runs whether or not the load raised.
AfterStoreLoadAlwaysRenames(ok) == "rename_dir"

\* builder.py:386: the STORE lock is still held by someone else when the
\* wait of FileLock ends: FileLock raises out of publish().
PublishLockTimeout(p) ==
    /\ pub[p].pc = "store_lock"
    /\ filelock[pub[p].course][STORE] # "free"
    /\ pub' = [pub EXCEPT ![p].pc = "idle", ![p].result = "lock_timeout",
                          ![p].raised = @ \cup {pub[p].call}]
    /\ UNCHANGED <<updates, triggersLeft, inflight, queue, tasklocks, worker, fs,
                   filelock, copyback, buildcall, hookcall>>

\* builder.py:387-392: the else clause with the renames runs only when
\* CourseConfig.get did not raise; after the except clause the with block
\* is over.
AfterStoreLoad(ok) == IF ok THEN "rename_dir" ELSE "prod"

\* builder.py:387-392: the STORE configuration loads, or the ConfigError is
\* recorded and the with block ends.
PublishLoad(p) ==
    /\ pub[p].pc = "load"
    /\ IF Loads(pub[p].course, STORE)
       THEN /\ pub' = [pub EXCEPT ![p].pc = AfterStoreLoad(TRUE),
                                  ![p].config = STORE]
            /\ UNCHANGED filelock
       ELSE /\ pub' = [pub EXCEPT ![p].pc = AfterStoreLoad(FALSE),
                                  ![p].errors = @ \cup {"store"}]
            /\ filelock' = [filelock EXCEPT ![pub[p].course][STORE] = "free"]
    /\ UNCHANGED <<updates, triggersLeft, inflight, queue, tasklocks, worker, fs,
                   copyback, buildcall, hookcall>>

\* One rename of renames(): the artifact moves from STORE to PUBLISH.
Renamed(c, field) ==
    [fs EXCEPT ![c][PUBLISH][field] = fs[c][STORE][field],
               ![c][STORE][field] = 0]

\* builder.py:393-394: (store_path, prod_path)
RenameDir(p) ==
    /\ pub[p].pc = "rename_dir"
    /\ fs' = Renamed(pub[p].course, "dir")
    /\ pub' = [pub EXCEPT ![p].pc = "rename_defaults",
                          ![p].promoted = @ \cup {pub[p].call}]
    /\ UNCHANGED <<updates, triggersLeft, inflight, queue, tasklocks, worker,
                   filelock, copyback, buildcall, hookcall>>

\* builder.py:395: (store_defaults_path, prod_defaults_path)
RenameDefaults(p) ==
    /\ pub[p].pc = "rename_defaults"
    /\ fs' = Renamed(pub[p].course, "defaults")
    /\ pub' = [pub EXCEPT ![p].pc = "rename_version"]
    /\ UNCHANGED <<updates, triggersLeft, inflight, queue, tasklocks, worker,
                   filelock, copyback, buildcall, hookcall>>

\* builder.py:396: (store_version_path, prod_version_path)
RenameVersion(p) ==
    /\ pub[p].pc = "rename_version"
    /\ fs' = Renamed(pub[p].course, "version")
    /\ pub' = [pub EXCEPT ![p].pc = "copy_back"]
    /\ UNCHANGED <<updates, triggersLeft, inflight, queue, tasklocks, worker,
                   filelock, copyback, buildcall, hookcall>>

\* builder.py:402-408: copys_async starts the copy-back thread; the with
\* block ends and the STORE lock is released.
CopyBackSchedule(p) ==
    /\ pub[p].pc = "copy_back"
    /\ copyback' = [copyback EXCEPT ![pub[p].course].waiting = @ + 1]
    /\ filelock' = [filelock EXCEPT ![pub[p].course][STORE] = "free"]
    /\ pub' = [pub EXCEPT ![p].pc = "prod"]
    /\ UNCHANGED <<updates, triggersLeft, inflight, queue, tasklocks, worker, fs,
                   buildcall, hookcall>>

\* builder.py:410: config is None and Path(prod_path).exists()
PublishProd(p) ==
    /\ pub[p].pc = "prod"
    /\ pub' = [pub EXCEPT ![p].pc =
                  IF pub[p].config = "none" /\ fs[pub[p].course][PUBLISH].dir # 0
                  THEN "prod_lock" ELSE "result"]
    /\ UNCHANGED <<updates, triggersLeft, inflight, queue, tasklocks, worker, fs,
                   filelock, copyback, buildcall, hookcall>>

\* builder.py:411: with FileLock(prod_path)
ProdLock(p) ==
    /\ pub[p].pc = "prod_lock"
    /\ filelock[pub[p].course][PUBLISH] = "free"
    /\ filelock' = [filelock EXCEPT ![pub[p].course][PUBLISH] = p]
    /\ pub' = [pub EXCEPT ![p].pc = "prod_load"]
    /\ UNCHANGED <<updates, triggersLeft, inflight, queue, tasklocks, worker, fs,
                   copyback, buildcall, hookcall>>

\* builder.py:411: the PUBLISH lock is still held by someone else when the
\* wait of FileLock ends: FileLock raises out of publish().
ProdLockTimeout(p) ==
    /\ pub[p].pc = "prod_lock"
    /\ filelock[pub[p].course][PUBLISH] # "free"
    /\ pub' = [pub EXCEPT ![p].pc = "idle", ![p].result = "lock_timeout",
                          ![p].raised = @ \cup {pub[p].call}]
    /\ UNCHANGED <<updates, triggersLeft, inflight, queue, tasklocks, worker, fs,
                   filelock, copyback, buildcall, hookcall>>

\* builder.py:412-416: the PUBLISH configuration loads or the error is recorded.
ProdLoad(p) ==
    /\ pub[p].pc = "prod_load"
    /\ pub' = IF Loads(pub[p].course, PUBLISH)
              THEN [pub EXCEPT ![p].pc = "result", ![p].config = PUBLISH]
              ELSE [pub EXCEPT ![p].pc = "result",
                               ![p].errors = @ \cup {"publish"}]
    /\ filelock' = [filelock EXCEPT ![pub[p].course][PUBLISH] = "free"]
    /\ UNCHANGED <<updates, triggersLeft, inflight, queue, tasklocks, worker, fs,
                   copyback, buildcall, hookcall>>

\* A publish() that raises whenever an error was recorded.
RaisesOnAnyError(config, errors) == config = "none" \/ errors # {}

\* builder.py:418: if config is None
Raises(config, errors) == config = "none"

\* builder.py:418-428: without a configuration publish() raises; with one it
\* links the static files (symbolic_link), publishes to the graders
\* (publish_graders) and returns the errors.
PublishResult(p) ==
    /\ pub[p].pc = "result"
    /\ pub' = IF Raises(pub[p].config, pub[p].errors)
              THEN [pub EXCEPT ![p].pc = "idle", ![p].result = "hard_failure",
                               ![p].raised = @ \cup {pub[p].call}]
              ELSE [pub EXCEPT ![p].pc = "idle", ![p].result = "returned",
                               ![p].linked = TRUE]
    /\ UNCHANGED <<updates, triggersLeft, inflight, queue, tasklocks, worker, fs,
                   filelock, copyback, buildcall, hookcall>>

\* copys_async(..., lock_path=store_path): a copy-back thread takes the STORE
\* lock.
CopyLock(c) ==
    /\ copyback[c].waiting > 0
    /\ copyback[c].pc = "idle"
    /\ filelock[c][STORE] = "free"
    /\ filelock' = [filelock EXCEPT ![c][STORE] = "copyback"]
    /\ copyback' = [copyback EXCEPT ![c].waiting = @ - 1, ![c].pc = "dir"]
    /\ UNCHANGED <<updates, triggersLeft, inflight, queue, tasklocks, worker, fs, pub,
                   buildcall, hookcall>>

\* One copy of copys_async: PUBLISH's artifact is copied back to STORE.
Copied(c, field) == [fs EXCEPT ![c][STORE][field] = fs[c][PUBLISH][field]]

\* builder.py:403: (prod_path, store_path) -- the directory exists from the
\* start of the copy, its content is complete at the end.
CopyDirBegin(c) ==
    /\ copyback[c].pc = "dir"
    /\ fs' = Copied(c, "dir")
    /\ copyback' = [copyback EXCEPT ![c].pc = "dir_end"]
    /\ UNCHANGED <<updates, triggersLeft, inflight, queue, tasklocks, worker,
                   filelock, pub, buildcall, hookcall>>

CopyDirEnd(c) ==
    /\ copyback[c].pc = "dir_end"
    /\ copyback' = [copyback EXCEPT ![c].pc = "defaults"]
    /\ UNCHANGED <<updates, triggersLeft, inflight, queue, tasklocks, worker, fs,
                   filelock, pub, buildcall, hookcall>>

\* builder.py:404: (prod_defaults_path, store_defaults_path)
CopyDefaults(c) ==
    /\ copyback[c].pc = "defaults"
    /\ fs' = Copied(c, "defaults")
    /\ copyback' = [copyback EXCEPT ![c].pc = "version"]
    /\ UNCHANGED <<updates, triggersLeft, inflight, queue, tasklocks, worker,
                   filelock, pub, buildcall, hookcall>>

\* builder.py:405: (prod_version_path, store_version_path); the thread is
\* done and releases the lock.
CopyVersion(c) ==
    /\ copyback[c].pc = "version"
    /\ fs' = Copied(c, "version")
    /\ copyback' = [copyback EXCEPT ![c].pc = "idle"]
    /\ filelock' = [filelock EXCEPT ![c][STORE] = "free"]
    /\ UNCHANGED <<updates, triggersLeft, inflight, queue, tasklocks, worker, pub,
                   buildcall, hookcall>>

\* ------------------------------------------------------------ builder.build

\* Python's None for an optional string, and an optional list.
None == "None"
NoList == [none |-> TRUE, list |-> << >>]
List(seq) == [none |-> FALSE, list |-> seq]

\* str.strip(): of the strings of the model only the blank one has
\* whitespace at its ends.
Strip(s) == IF s = " " THEN "" ELSE s

\* shlex.split() of the command strings of the model.
Shlex(s) ==
    CASE s = "make html" -> <<"make", "html">>
      [] s = "./build.sh" -> <<"./build.sh">>
      [] s = "sphinx-build -b html" -> <<"sphinx-build", "-b", "html">>
      [] OTHER -> << >>

\* "\n".join(list)
RECURSIVE Join(_)
Join(list) ==
    IF Len(list) = 0 THEN ""
    ELSE IF Len(list) = 1 THEN list[1]
    ELSE list[1] \o "\n" \o Join(Tail(list))

\* The manifest load_meta returns: a dict, empty when there is no manifest
\* file; only its keys build_image and build_command matter to build().
MetaKeys == {"build_image", "build_command", "exclude_patterns"}
MetaValues(k) ==
    CASE k = "build_image" -> {"meta/image", " "}
      [] k = "build_command" -> {"sphinx-build -b html"}
      [] OTHER -> {"_build"}
Metas ==
    UNION { {m \in [keys -> {"meta/image", " ", "sphinx-build -b html", "_build"}] :
                \A k \in keys : m[k] \in MetaValues(k)} : keys \in SUBSET MetaKeys }

\* A build() that falls back to settings.DEFAULT_CMD whenever the manifest
\* has no build_command and the caller gave none.
build_command_or_default(meta, image, command, DEFAULT_CMD) ==
    IF image # None THEN command
    ELSE IF DOMAIN meta = {} THEN command
    ELSE IF "build_command" \in DOMAIN meta THEN meta["build_command"]
    ELSE IF command # None THEN command
    ELSE DEFAULT_CMD

\* builder.py:126-151: the command build() settles on; an empty manifest is
\* falsy and leaves the command as the caller gave it.
build_command(meta, image, command, DEFAULT_CMD) ==
    IF image # None THEN command
    ELSE IF DOMAIN meta = {} THEN command
    ELSE IF "build_command" \in DOMAIN meta THEN meta["build_command"]
    ELSE IF command # None THEN command
    ELSE IF "build_image" \notin DOMAIN meta THEN DEFAULT_CMD
    ELSE None

\* builder.py:126-153: the image build() settles on, stripped.
build_image(meta, image, DEFAULT_IMAGE) ==
    Strip(IF image # None THEN image
          ELSE IF "build_image" \in DOMAIN meta THEN meta["build_image"]
          ELSE DEFAULT_IMAGE)

\* builder.py:155-178: what build_module.build receives; nothing when the
\* image is empty; joining a changed_files that is None raises.
build(meta, image, command, changed_files, DEFAULT_IMAGE, DEFAULT_CMD) ==
    LET img == build_image(meta, image, DEFAULT_IMAGE)
        cmd == build_command(meta, image, command, DEFAULT_CMD)
        nothing == [invoked |-> FALSE, raised |-> FALSE, image |-> "",
                    cmd |-> NoList, changed_files |-> NoList,
                    CHANGED_FILES |-> ""]
    IN IF img = "" THEN nothing
       ELSE IF changed_files.none THEN [nothing EXCEPT !.raised = TRUE]
       ELSE [invoked |-> TRUE, raised |-> FALSE, image |-> img,
             cmd |-> IF cmd # None THEN List(Shlex(cmd)) ELSE NoList,
             changed_files |-> changed_files,
             CHANGED_FILES |-> Join(changed_files.list)]

\* What diff_names returns: an error and no list, or no error and the
\* list of the paths that differ.
DiffOutcomes ==
    { [error |-> TRUE, files |-> NoList],
      [error |-> FALSE, files |-> List(<< >>)],
      [error |-> FALSE, files |-> List(<<"index.rst", "conf.py">>)] }

\* builder.py:82-109: clone_status is "exists" (None: the repository was
\* there), "cloned" or "failed"; last is what the last successful update of
\* the course recorded: "none" (no such update), "no_hash" or "hash".
update_from_git(clone_status, checkout_status, last, diff) ==
    IF clone_status = "exists"
    THEN IF ~checkout_status THEN [success |-> FALSE, changed_files |-> NoList]
         ELSE [success |-> TRUE,
               changed_files |-> IF last = "hash" THEN diff.files ELSE NoList]
    ELSE IF clone_status = "failed"
    THEN [success |-> FALSE, changed_files |-> NoList]
    ELSE [success |-> TRUE, changed_files |-> NoList]

\* builder.py:515-535: git sync, the local copy or neither.
sync(b) ==
    IF b.skip_git THEN [success |-> TRUE, changed_files |-> NoList]
    ELSE IF b.git_origin
    THEN update_from_git(b.clone_status, b.checkout_status, b.last, b.diff)
    ELSE [success |-> TRUE, changed_files |-> NoList]

\* A build stage that passes an unknown changed-file set on as no files.
changed_files_or_none(rebuild_all, changed_files) ==
    IF rebuild_all THEN List(<<"*">>)
    ELSE IF changed_files.none THEN List(<< >>)
    ELSE changed_files

\* builder.py:545-554: the list the build stage hands to build().
changed_files_or_all(rebuild_all, changed_files) ==
    IF rebuild_all THEN List(<<"*">>)
    ELSE IF changed_files.none THEN List(<<"*">>)
    ELSE changed_files

\* The inputs of one run's git and build stages: the job's flags, the
\* course, the manifest, the settings and what git answers.
BuildInputs ==
    [pc : {"git"}, skip_git : BOOLEAN, skip_build : BOOLEAN,
     rebuild_all : BOOLEAN, git_origin : BOOLEAN,
     clone_status : {"exists", "cloned", "failed"}, checkout_status : BOOLEAN,
     last : {"none", "no_hash", "hash"}, diff : DiffOutcomes,
     meta : Metas, image : {None, "override/image"},
     command : {None, "./build.sh"},
     DEFAULT_IMAGE : {"default/image", ""}, DEFAULT_CMD : {None, "make html"},
     changed_files : {NoList},
     executor : {build(<< >>, None, None, NoList, "", None)}]

\* builder.py:515-542: the git stage; a failed sync returns.
BuildGit ==
    /\ buildcall.pc = "git"
    /\ buildcall' = [buildcall EXCEPT
                        !.pc = IF sync(buildcall).success THEN "build" ELSE "returned",
                        !.changed_files = sync(buildcall).changed_files]
    /\ UNCHANGED <<updates, triggersLeft, inflight, queue, tasklocks, worker, fs,
                   filelock, pub, copyback, hookcall>>

\* builder.py:544-561: the build stage, unless skipped, calls build() with
\* the changed files or the wildcard.
BuildCall ==
    /\ buildcall.pc = "build"
    /\ buildcall' =
          IF buildcall.skip_build THEN [buildcall EXCEPT !.pc = "check"]
          ELSE LET b == buildcall IN
               [buildcall EXCEPT
                  !.pc = "called",
                  !.executor =
                      build(b.meta, b.image, b.command,
                            changed_files_or_all(b.rebuild_all, b.changed_files),
                            b.DEFAULT_IMAGE, b.DEFAULT_CMD)]
    /\ UNCHANGED <<updates, triggersLeft, inflight, queue, tasklocks, worker, fs,
                   filelock, pub, copyback, hookcall>>

\* ------------------------------------------------------------ specification

NoUpdates == << >>

Init ==
    /\ updates = NoUpdates
    /\ triggersLeft = MaxTriggers
    /\ inflight = [c \in Courses |-> 0]
    /\ queue = [j \in Jobs |-> 0]
    /\ tasklocks = {}
    /\ worker = [w \in Workers |-> IdleWorker]
    /\ fs = [c \in Courses |-> [s \in {BUILD, STORE, PUBLISH} |-> EmptyTree]]
    /\ filelock = [c \in Courses |-> [s \in {STORE, PUBLISH} |-> "free"]]
    /\ pub = [p \in Publishers |-> IdlePublisher]
    /\ copyback = [c \in Courses |-> IdleCopy]
    /\ buildcall = NoBuild
    /\ hookcall = NoHookCall

\* The outcomes the collaborators (git, the build executor, the
\* configuration loader) can report.
GitOutcomes == {"failed", "synced", "copied", "no_origin"}
BuildOutcomes == {"no_image", "built", "failed"}
ConfigOutcomes == {"ok", "ConfigError", "ValidationError"}

Hook(courses, raws) ==
    \/ \E c \in courses, req \in Requests : HookCreate(c, req)
    \/ \E c \in courses, p \in {ParseParams(raw) : raw \in raws} : HookEnqueue(c, p)

PushEvent(w) ==
    \/ \E j \in Jobs : Dequeue(w, j)
    \/ AcquireTaskLock(w)
    \/ Contended(w)
    \/ Requeue(w)

\* The steps of build_course that no collaborator decides; cfgs are the
\* Course rows the run may read.
Sequencer(w, cfgs) ==
    \/ \E cfg \in cfgs : Prune(w, cfg)
    \/ Fetch(w)
    \/ SkipOlder(w)
    \/ MarkRunning(w)
    \/ MarkSuccess(w)
    \/ \E a, r, f \in BOOLEAN, out \in NotifyOutcomes : Notify(w, a, r, f, out)
    \/ Finalize(w)
    \/ \E out \in CleanOutcomes : Clean(w, out)

\* The steps of store() under the STORE lock.
StoreWrites(w) ==
    \/ StoreLock(w)
    \/ StoreRemove(w)
    \/ StoreCopy(w)
    \/ StoreDefaults(w)
    \/ StoreVersion(w)

Stages(w) ==
    \/ \E out \in GitOutcomes : GitSync(w, out)
    \/ \E out \in BuildOutcomes : Build(w, out)
    \/ \E t \in Trees : Check(w, t)
    \/ WriteVersionId(w)
    \/ \E out \in ConfigOutcomes : LoadConfig(w, out)
    \/ \E errors \in BOOLEAN : StoreConfigure(w, errors)
    \/ StoreWrites(w)
    \/ StageRaises(w)

\* The stages when git, the configuration and the graders work and the
\* executor succeeds or fails.
CalmStages(w) ==
    \/ GitSync(w, "synced")
    \/ \E out \in {"built", "failed"} : Build(w, out)
    \/ Check(w, {RegularFile})
    \/ WriteVersionId(w)
    \/ LoadConfig(w, "ok")
    \/ StoreConfigure(w, FALSE)
    \/ StoreWrites(w)

\* One course, two workers, every outcome of every stage.
Next ==
    \/ Hook({"c1"}, RawParams)
    \/ \E w \in Workers : PushEvent(w) \/ Sequencer(w, CourseConfigs) \/ Stages(w)

Spec == Init /\ [][Next]_vars

\* Two courses, two workers: the jobs of different courses run side by side.
NextCourses ==
    \/ Hook(Courses, {<<"absent", "absent", "absent">>})
    \/ \E w \in Workers : PushEvent(w) \/ Sequencer(w, {NoCourse}) \/ CalmStages(w)

SpecCourses == Init /\ [][NextCourses]_vars

\* The huey consumer keeps its workers going: a worker that can take a step
\* (take a job, go on with push_event or build_course) eventually takes one,
\* and a hook that created its update goes on to enqueue the job.
Fairness ==
    /\ \A w \in Workers :
          WF_vars(PushEvent(w) \/ Sequencer(w, {NoCourse}) \/ CalmStages(w))
    /\ WF_vars(Hook(Courses, {<<"absent", "absent", "absent">>}))

SpecFair == Init /\ [][NextCourses]_vars /\ Fairness

\* A course whose hook was called HistoryLimit times before any worker took
\* a job: HistoryLimit PENDING rows, as many queued jobs.
DefaultJob(c) == [course |-> c, params |-> ParseParams(<<"absent", "absent", "absent">>)]

InitBacklog ==
    /\ updates = [i \in 1..HistoryLimit |->
                     [course |-> "c1", status |-> PENDING, alive |-> TRUE]]
    /\ triggersLeft = MaxTriggers
    /\ inflight = [c \in Courses |-> 0]
    /\ queue = [j \in Jobs |-> IF j = DefaultJob("c1") THEN HistoryLimit ELSE 0]
    /\ tasklocks = {}
    /\ worker = [w \in Workers |-> IdleWorker]
    /\ fs = [c \in Courses |-> [s \in {BUILD, STORE, PUBLISH} |-> EmptyTree]]
    /\ filelock = [c \in Courses |-> [s \in {STORE, PUBLISH} |-> "free"]]
    /\ pub = [p \in Publishers |-> IdlePublisher]
    /\ copyback = [c \in Courses |-> IdleCopy]
    /\ buildcall = NoBuild
    /\ hookcall = NoHookCall

NextBacklog ==
    \/ Hook({"c1"}, {<<"absent", "absent", "absent">>})
    \/ \E w \in Workers : PushEvent(w) \/ Sequencer(w, {NoCourse}) \/ CalmStages(w)

SpecBacklog == InitBacklog /\ [][NextBacklog]_vars

\* The STORE and PUBLISH trees publish() can find: nothing stored, a stored
\* version that loads or one that does not; nothing published or an older
\* version published.
StoredTrees == {EmptyTree, Tree(2), Tree(3)}
PublishedTrees == {EmptyTree, Tree(1)}

InitPublish ==
    /\ updates = NoUpdates
    /\ triggersLeft = 0
    /\ inflight = [c \in Courses |-> 0]
    /\ queue = [j \in Jobs |-> 0]
    /\ tasklocks = {}
    /\ worker = [w \in Workers |-> IdleWorker]
    /\ \E st \in StoredTrees, pt \in PublishedTrees :
          fs = [c \in Courses |->
                   [s \in {BUILD, STORE, PUBLISH} |->
                       IF c = "c1" /\ s = STORE THEN st
                       ELSE IF c = "c1" /\ s = PUBLISH THEN pt
                       ELSE EmptyTree]]
    /\ filelock = [c \in Courses |-> [s \in {STORE, PUBLISH} |-> "free"]]
    /\ pub = [p \in Publishers |-> IdlePublisher]
    /\ copyback = [c \in Courses |-> IdleCopy]
    /\ buildcall = NoBuild
    /\ hookcall = NoHookCall

\* The steps of one publish() call.
Publish(p) ==
    \/ PublishExists(p)
    \/ PublishVersions(p)
    \/ PublishRead(p)
    \/ PublishLock(p)
    \/ PublishLoad(p)
    \/ RenameDir(p)
    \/ RenameDefaults(p)
    \/ RenameVersion(p)
    \/ CopyBackSchedule(p)
    \/ PublishProd(p)
    \/ ProdLock(p)
    \/ ProdLoad(p)
    \/ PublishResult(p)

\* The steps of the copy-back threads.
CopyBack(c) ==
    \/ CopyLock(c)
    \/ CopyDirBegin(c)
    \/ CopyDirEnd(c)
    \/ CopyDefaults(c)
    \/ CopyVersion(c)

\* One caller that calls publish() for one course again and again, no
\* store() in between, while the copy-back threads run.
NextPublish ==
    \/ PublishStart("p1", "c1")
    \/ Publish("p1")
    \/ CopyBack("c1")

SpecPublish == InitPublish /\ [][NextPublish]_vars


\* build_course and publish() side by side for one course: one huey worker
\* runs the updates of courses with and without skip_build_failsafes while
\* one caller publishes and the copy-back threads run.
NextPromote ==
    \/ Hook({"c1"}, {<<"absent", "absent", "absent">>})
    \/ \E j \in Jobs : Dequeue("w1", j)
    \/ AcquireTaskLock("w1")
    \/ Sequencer("w1", CourseConfigs)
    \/ CalmStages("w1")
    \/ PublishStart("p1", "c1")
    \/ Publish("p1")
    \/ CopyBack("c1")

SpecPromote == Init /\ [][NextPromote]_vars


\* The git and build stages of one run, for every manifest, override,
\* setting and answer of git.
InitBuild ==
    /\ updates = NoUpdates
    /\ triggersLeft = 0
    /\ inflight = [c \in Courses |-> 0]
    /\ queue = [j \in Jobs |-> 0]
    /\ tasklocks = {}
    /\ worker = [w \in Workers |-> IdleWorker]
    /\ fs = [c \in Courses |-> [s \in {BUILD, STORE, PUBLISH} |-> EmptyTree]]
    /\ filelock = [c \in Courses |-> [s \in {STORE, PUBLISH} |-> "free"]]
    /\ pub = [p \in Publishers |-> IdlePublisher]
    /\ copyback = [c \in Courses |-> IdleCopy]
    /\ buildcall \in BuildInputs
    /\ hookcall = NoHookCall

NextBuild == BuildGit \/ BuildCall

SpecBuild == InitBuild /\ [][NextBuild]_vars


\* Every kind of request to the hook of one course, answered while one
\* worker runs the updates the accepted ones created.
NextHook ==
    \/ \E req \in Requests : HookCall("c1", req)
    \/ HookEnqueue("c1", ParseParams(<<"absent", "absent", "absent">>))
    \/ \E j \in Jobs : Dequeue("w1", j)
    \/ AcquireTaskLock("w1")
    \/ Sequencer("w1", {NoCourse})
    \/ CalmStages("w1")

SpecHook == Init /\ [][NextHook]_vars


\* One run of build_course for a course whose first update was stored and
\* waits for its promotion, while one caller publishes again and again,
\* another once, and the copy-back threads run: the file locks are contended
\* and the waits for them can time out.
InitLocks ==
    /\ updates = <<[course |-> "c1", status |-> SUCCESS, alive |-> TRUE],
                   [course |-> "c1", status |-> PENDING, alive |-> TRUE]>>
    /\ triggersLeft = 0
    /\ inflight = [c \in Courses |-> 0]
    /\ queue = [j \in Jobs |-> IF j = DefaultJob("c1") THEN 1 ELSE 0]
    /\ tasklocks = {}
    /\ worker = [w \in Workers |-> IdleWorker]
    /\ fs = [c \in Courses |->
                [s \in {BUILD, STORE, PUBLISH} |->
                    IF c = "c1" /\ s = STORE THEN Tree(1) ELSE EmptyTree]]
    /\ filelock = [c \in Courses |-> [s \in {STORE, PUBLISH} |-> "free"]]
    /\ pub = [p \in Publishers |-> IdlePublisher]
    /\ copyback = [c \in Courses |-> IdleCopy]
    /\ buildcall = NoBuild
    /\ hookcall = NoHookCall

\* The run when every stage works, up to the waits for the locks.
CalmRun(w) ==
    \/ \E j \in Jobs : Dequeue(w, j)
    \/ AcquireTaskLock(w)
    \/ Prune(w, NoCourse)
    \/ Fetch(w)
    \/ SkipOlder(w)
    \/ MarkRunning(w)
    \/ CalmStages(w)
    \/ StoreLockTimeout(w)
    \/ MarkSuccess(w)
    \/ Notify(w, FALSE, FALSE, FALSE, "ok")
    \/ Finalize(w)
    \/ Clean(w, "cleaned")

NextLocks ==
    \/ CalmRun("w1")
    \/ PublishStart("p1", "c1")
    \/ pub["p2"].call = 0 /\ PublishStart("p2", "c1")
    \/ \E p \in Publishers :
          \/ Publish(p)
          \/ PublishLockTimeout(p)
          \/ ProdLockTimeout(p)
    \/ CopyBack("c1")

SpecLocks == InitLocks /\ [][NextLocks]_vars

\* Two concurrent publish() calls for one course: both callers have found
\* a STORE whose version id differs from PUBLISH's (builder.py:384-385) and
\* neither has taken the STORE lock yet.
InitRace ==
    /\ updates = NoUpdates
    /\ triggersLeft = 0
    /\ inflight = [c \in Courses |-> 0]
    /\ queue = [j \in Jobs |-> 0]
    /\ tasklocks = {}
    /\ worker = [w \in Workers |-> IdleWorker]
    /\ \E st \in StoredTrees \ {EmptyTree}, pt \in PublishedTrees :
          fs = [c \in Courses |->
                   [s \in {BUILD, STORE, PUBLISH} |->
                       IF c = "c1" /\ s = STORE THEN st
                       ELSE IF c = "c1" /\ s = PUBLISH THEN pt
                       ELSE EmptyTree]]
    /\ filelock = [c \in Courses |-> [s \in {STORE, PUBLISH} |-> "free"]]
    /\ pub = [p \in Publishers |->
                 [IdlePublisher EXCEPT !.pc = "store_lock", !.course = "c1",
                                       !.call = 1]]
    /\ copyback = [c \in Courses |-> IdleCopy]
    /\ buildcall = NoBuild
    /\ hookcall = NoHookCall

\* The steps of publish() from the STORE lock on.
Promote(p) ==
    \/ PublishLock(p)
    \/ PublishLoad(p)
    \/ RenameDir(p)
    \/ RenameDefaults(p)
    \/ RenameVersion(p)
    \/ CopyBackSchedule(p)
    \/ PublishProd(p)
    \/ ProdLock(p)
    \/ ProdLoad(p)
    \/ PublishResult(p)

NextRace ==
    \/ \E p \in Publishers : Promote(p)
    \/ CopyBack("c1")

SpecRace == InitRace /\ [][NextRace]_vars

\* ------------------------------------------------------------------ claims

\* Where a worker is while it runs a pipeline stage for its selected update.
StagePcs == TryPcs \cup {"store_lock", "success", "notify"}

\* C1: of the N >= 1 PENDING updates build_course fetches, the latest one is
\* the one selected and set RUNNING, every other fetched update is SKIPPED,
\* for every N (also N > HistoryLimit); a worker that runs a stage runs it
\* for an update that is RUNNING, never for a skipped one.
LatestRunsOthersSkipped ==
    \A w \in Workers :
        worker[w].update # 0 =>
            LET fetched == worker[w].pending
                u == worker[w].update
            IN /\ u \in fetched
               /\ \A i \in fetched : i <= u
               /\ \A i \in fetched \ {u} : updates[i].status = SKIPPED
               /\ worker[w].pc = "run" => updates[u].status = PENDING
               /\ worker[w].pc \in StagePcs \cup {"final"} => updates[u].status = RUNNING
               /\ worker[w].pc = "clean" => updates[u].status \in {SUCCESS, FAILED}

\* C1 happens: a stage runs for the latest of more than HistoryLimit fetched
\* updates, the others being SKIPPED.
ManyFetchedOneRuns ==
    \E w \in Workers :
        /\ worker[w].pc = "store_copy"
        /\ Cardinality(worker[w].pending) > HistoryLimit
        /\ Cardinality({i \in worker[w].pending : updates[i].status = SKIPPED})
              = Cardinality(worker[w].pending) - 1

\* The rows of course c that are RUNNING, the workers inside build_course for c.
RunningRows(c) == {i \in CourseRows(c) : updates[i].status = RUNNING}
Builders(c) ==
    {w \in Workers : worker[w].pc \notin {"idle", "lock", "retry"} /\ Course(w) = c}

\* C2: at most one update of a course is RUNNING and at most one worker is
\* inside build_course for a course, while different courses may overlap.
OneRunningPerCourse ==
    \A c \in Courses :
        /\ Cardinality(RunningRows(c)) <= 1
        /\ Cardinality(Builders(c)) <= 1

\* C2 happens: two workers run stages of two different courses at once.
TwoCoursesOverlap ==
    /\ worker["w1"].pc \in TryPcs
    /\ worker["w2"].pc \in TryPcs
    /\ Course("w1") # Course("w2")
    /\ RunningRows("c1") # {}
    /\ RunningRows("c2") # {}

\* A job of course c met the held lock; a job of course c is in build_course.
Retrying(c) == \E w \in Workers : worker[w].pc = "retry" /\ Course(w) = c
Entered(c) == \E w \in Workers : worker[w].pc = "prune" /\ Course(w) = c

\* C3: a push_event job that finds the lock of its course held changes no
\* update and is not lost: the job is enqueued again, and with workers that
\* keep going a job of that course eventually takes the lock and enters
\* build_course.
ContendedJobRetried ==
    /\ [][\A w \in Workers :
            /\ (worker[w].pc = "lock" /\ worker'[w].pc = "retry")
                  => updates' = updates /\ queue' = queue
            /\ (worker[w].pc = "retry" /\ worker'[w].pc # "retry")
                  => /\ updates' = updates
                     /\ worker'[w].pc = "idle"
                     /\ queue'[worker[w].job] = queue[worker[w].job] + 1]_vars
    /\ \A c \in Courses : Retrying(c) ~> Entered(c)

\* C3 happens: a job met the held lock while the holder runs a stage.
JobMetHeldLock ==
    \E w, v \in Workers :
        /\ worker[w].pc = "retry"
        /\ worker[v].pc \in TryPcs
        /\ Course(v) = Course(w)

\* The status changes an update may go through.
AllowedTransitions ==
    { <<PENDING, RUNNING>>, <<PENDING, SKIPPED>>,
      <<RUNNING, SUCCESS>>, <<RUNNING, FAILED>> }

\* C4: a status changes only PENDING -> RUNNING -> {SUCCESS, FAILED} or
\* PENDING -> SKIPPED; SUCCESS, FAILED and SKIPPED never change again.
TransitionsAllowed ==
    [][\A i \in DOMAIN updates :
          updates'[i].status # updates[i].status
             => <<updates[i].status, updates'[i].status>> \in AllowedTransitions]_vars

\* C4 happens: one update was skipped and a later one ran to SUCCESS.
SkippedAndSucceeded ==
    \E i, k \in DOMAIN updates :
        /\ updates[i].status = SKIPPED
        /\ updates[k].status = SUCCESS

\* C5: an update that is RUNNING is the selected update of a worker that is
\* still inside build_course before its finally clause has saved, and once
\* the finally clause has saved, the selected update is SUCCESS or FAILED.
SelectedEndsTerminal ==
    /\ \A i \in DOMAIN updates :
          updates[i].status = RUNNING =>
              \E w \in Workers : /\ worker[w].update = i
                                 /\ worker[w].pc \in StagePcs \cup {"final"}
    /\ \A w \in Workers :
          (worker[w].pc = "clean" /\ worker[w].update # 0) =>
              updates[worker[w].update].status \in {SUCCESS, FAILED}

\* C5 happens: a run whose configuration load raised has gone through the
\* finally clause and its update is FAILED.
RaisedRunFailed ==
    \E w \in Workers :
        /\ worker[w].pc = "clean"
        /\ worker[w].config = "ConfigError"
        /\ updates[worker[w].update].status = FAILED

\* C6: no update record disappears without a terminal status.
NoneLostUnfinished ==
    \A i \in DOMAIN updates :
        ~updates[i].alive => updates[i].status \in {SUCCESS, FAILED, SKIPPED}

\* C7 as stated: a course never has more than HistoryLimit update records.
HistoryBounded ==
    \A c \in Courses : Cardinality(CourseRows(c)) <= HistoryLimit

\* C7, amended: right after the prune of build_course the course has at most
\* HistoryLimit update records, and a record is deleted only if at least
\* HistoryLimit records of the same course were requested later.
PruneKeepsLatest ==
    [][/\ \A i \in DOMAIN updates :
             (updates[i].alive /\ ~updates'[i].alive)
                => Cardinality(NewerRows(i)) >= HistoryLimit
       /\ \A w \in Workers :
             (worker[w].pc = "prune" /\ worker'[w].pc = "fetch")
                => Cardinality({i \in DOMAIN updates' :
                                   /\ updates'[i].course = Course(w)
                                   /\ updates'[i].alive}) <= HistoryLimit]_vars

\* C7 happens: a prune has deleted a record and HistoryLimit records remain.
PrunedToLimit ==
    \E i \in DOMAIN updates :
        /\ ~updates[i].alive
        /\ Cardinality(CourseRows(updates[i].course)) = HistoryLimit

\* Self-contained: every entry resolves inside the tree and no symlink has
\* an absolute target.
SelfContained(tree) == \A e \in tree : e.inside /\ ~(e.link /\ e.abs)

\* C8: a run whose built tree is not self-contained is rejected (it goes to
\* the finally clause, FAILED) and has written nothing to STORE or PUBLISH,
\* whatever the course's skip_build_failsafes.
EscapingTreeRejected ==
    \A w \in Workers :
        (worker[w].tree # {} /\ ~SelfContained(worker[w].tree)) =>
            /\ worker[w].pc \in {"final", "clean"}
            /\ worker[w].status # SUCCESS
            /\ worker[w].wrote \cap {STORE, PUBLISH} = {}

\* The configuration load of the run of worker w failed.
ConfigFailed(w) == worker[w].config \in {"ConfigError", "ValidationError"}

\* C9 as stated: a run whose configuration load failed ends FAILED, does not
\* call store() and has modified neither STORE nor PUBLISH.
ConfigFailureTouchesNothing ==
    \A w \in Workers :
        ConfigFailed(w) =>
            /\ worker[w].pc \in {"final", "clean"}
            /\ worker[w].status # SUCCESS
            /\ worker[w].pc = "clean" => updates[worker[w].update].status = FAILED
            /\ worker[w].wrote \cap {STORE, PUBLISH} = {}

\* C9, amended: a run whose configuration load failed ends FAILED, does not
\* call store() and has not modified STORE; it has not modified PUBLISH
\* either unless the course has skip_build_failsafes (the run then works in
\* PUBLISH and has written the version-id file there).
ConfigFailureSkipsStore ==
    \A w \in Workers :
        ConfigFailed(w) =>
            /\ worker[w].pc \in {"final", "clean"}
            /\ worker[w].status # SUCCESS
            /\ worker[w].pc = "clean" => updates[worker[w].update].status = FAILED
            /\ STORE \notin worker[w].wrote
            /\ ~worker[w].course.skip_build_failsafes => PUBLISH \notin worker[w].wrote

\* C9 happens: the configuration of a course without skip_build_failsafes
\* failed validation, the run is over and its update is FAILED.
InvalidConfigFailed ==
    \E w \in Workers :
        /\ worker[w].pc = "clean"
        /\ worker[w].config = "ValidationError"
        /\ ~worker[w].course.skip_build_failsafes
        /\ updates[worker[w].update].status = FAILED

\* C10: after a call of publish() that promoted, a later call with no
\* store() in between neither promotes again nor raises, wherever the
\* copy-back of the first call is when the later call runs.
SecondPublishIdle ==
    \A p \in Publishers :
        \A j \in pub[p].promoted :
            \A k \in pub[p].promoted \cup pub[p].raised : k <= j

\* C11: the three PUBLISH artifacts (directory with the index, exercise
\* defaults, version id) of a course always belong to one version, also
\* between the renames of a promotion.
PublishedOneVersion ==
    \A c \in Courses :
        /\ fs[c][PUBLISH].dir = fs[c][PUBLISH].defaults
        /\ fs[c][PUBLISH].defaults = fs[c][PUBLISH].version

\* The positions of a publish() call between the renames of the promotion.
RenamePcs == {"rename_dir", "rename_defaults", "rename_version", "copy_back"}

\* C12: when publish() found the versions different and loading the STORE
\* configuration raised ConfigError, the call renames nothing and no PUBLISH
\* artifact changes for the rest of the call; the error is in the list, and
\* the call returns the non-empty list (instead of raising) exactly when a
\* PUBLISH configuration exists and loads.
StoreLoadFailureKeepsPublish ==
    [][\A p \in Publishers :
          "store" \in pub'[p].errors =>
              LET c == pub'[p].course IN
              /\ pub'[p].pc \notin RenamePcs
              /\ pub'[p].config # STORE
              /\ pub'[p].call \notin pub'[p].promoted
              /\ fs'[c][PUBLISH] = fs[c][PUBLISH]
              /\ (pub[p].pc = "result" /\ pub'[p].pc = "idle") =>
                    /\ pub'[p].result = "returned" <=> Loads(c, PUBLISH)
                    /\ pub'[p].result = "returned" => pub'[p].errors # {}
                    /\ pub'[p].result # "returned" =>
                          pub'[p].result = "hard_failure"]_vars

\* C12 happens: a call whose STORE load failed returned its error list
\* because the PUBLISH configuration loaded.
ReturnedWithStoreError ==
    \E p \in Publishers :
        /\ pub[p].result = "returned"
        /\ "store" \in pub[p].errors
        /\ pub[p].config = PUBLISH
        /\ fs[pub[p].course][PUBLISH] = Tree(1)
        /\ pub[p].promoted = {}

\* C13: publish() raises its hard failure exactly when it has no
\* configuration from either stage: the call did not promote STORE and
\* PUBLISH is absent or does not load; a call that raises this way has not
\* linked the static files nor published to the graders.
HardFailureIffNoConfig ==
    [][\A p \in Publishers :
          (pub[p].pc = "result" /\ pub'[p].pc = "idle") =>
              LET c == pub[p].course IN
              /\ pub'[p].result = "hard_failure" <=>
                    /\ pub[p].call \notin pub[p].promoted
                    /\ ~Loads(c, PUBLISH)
              /\ pub'[p].result = "hard_failure" =>
                    /\ ~pub'[p].linked
                    /\ pub'[p].call \in pub'[p].raised
              /\ pub'[p].result # "hard_failure" =>
                    /\ pub'[p].result = "returned"
                    /\ pub'[p].linked
                    /\ pub'[p].call \notin pub'[p].raised]_vars

\* C13 happens: a call raised the hard failure after the load of STORE
\* failed and no PUBLISH directory existed.
HardFailureRaised ==
    \E p \in Publishers :
        /\ pub[p].result = "hard_failure"
        /\ pub[p].errors = {"store"}
        /\ fs[pub[p].course][PUBLISH] = EmptyTree
        /\ ~pub[p].linked

\* A step of a publish() call for course c that renames one artifact.
PromotionStep(c) ==
    \E p \in Publishers :
        /\ pub[p].course = c
        /\ pub[p].pc \in {"rename_dir", "rename_defaults", "rename_version"}
        /\ pub'[p].pc # pub[p].pc

\* A publish() call goes on to the promotion only from a comparison that
\* found a version-id file missing or the two version ids different.
PromotionOnlyWhenDifferent ==
    \A p \in Publishers :
        (pub[p].pc \in {"versions", "read"} /\ pub'[p].pc = "store_lock") =>
            LET c == pub[p].course IN
            \/ fs[c][PUBLISH].version = 0
            \/ fs[c][STORE].version = 0
            \/ fs[c][PUBLISH].version # fs[c][STORE].version

\* A step of a stage that works in the working tree (git sync, build, the
\* version-id write, git clean) of a run for course c that read
\* skip_build_failsafes set on the course: its working tree is PUBLISH.
FailsafeSkippingStage(c) ==
    \E w \in Workers :
        /\ Course(w) = c
        /\ worker[w].course.skip_build_failsafes
        /\ worker[w].pc \in {"git", "build", "version", "clean"}
        /\ worker'[w].pc # worker[w].pc

\* C14: every change of a PUBLISH artifact is a rename of the promotion of
\* publish(), which is entered only when the version ids differ or one is
\* missing; git sync, build, the version-id write, store and cleanup change
\* no PUBLISH artifact.
PublishOnlyByPromotion ==
    [][/\ \A c \in Courses :
             fs'[c][PUBLISH] # fs[c][PUBLISH] => PromotionStep(c)
       /\ PromotionOnlyWhenDifferent]_vars

\* C14, amended: every change of a PUBLISH artifact is a rename of the
\* promotion of publish(), entered only when the version ids differ or one
\* is missing, or a git sync, build, version-id write or cleanup of a run
\* whose course has skip_build_failsafes set; store and the stages of runs
\* without the flag change no PUBLISH artifact.
PublishByPromotionOrFailsafeSkip ==
    [][/\ \A c \in Courses :
             fs'[c][PUBLISH] # fs[c][PUBLISH] =>
                 PromotionStep(c) \/ FailsafeSkippingStage(c)
       /\ PromotionOnlyWhenDifferent]_vars

\* C14 happens: a publish() call promoted what a run stored, and a run with
\* skip_build_failsafes wrote into PUBLISH.
PromotedAndBuiltInPublish ==
    /\ pub["p1"].promoted # {}
    /\ worker["w1"].course.skip_build_failsafes
    /\ PUBLISH \in worker["w1"].wrote
    /\ fs["c1"][PUBLISH].dir # 0

\* The build stage called build() without an override image or command.
CalledWithoutOverride ==
    /\ buildcall.pc = "called"
    /\ buildcall.image = None
    /\ buildcall.command = None

\* The command as the executor receives it: split, or None.
AsExecutorCmd(cmd) == IF cmd = None THEN NoList ELSE List(Shlex(cmd))

\* C15: with no manifest and no override image or command, the executor is
\* invoked with settings.DEFAULT_IMAGE and settings.DEFAULT_CMD.
NoManifestUsesBothDefaults ==
    (CalledWithoutOverride /\ DOMAIN buildcall.meta = {}
        /\ buildcall.DEFAULT_IMAGE # "") =>
        /\ buildcall.executor.invoked
        /\ buildcall.executor.image = buildcall.DEFAULT_IMAGE
        /\ buildcall.executor.cmd = AsExecutorCmd(buildcall.DEFAULT_CMD)

\* C16: with a manifest that has build_image and no build_command, and no
\* override image or command, the executor is invoked with the manifest's
\* image and cmd None, whatever settings.DEFAULT_CMD is.
ImageOnlyManifestLeavesCommandUnset ==
    (CalledWithoutOverride
        /\ "build_image" \in DOMAIN buildcall.meta
        /\ "build_command" \notin DOMAIN buildcall.meta) =>
        IF Strip(buildcall.meta["build_image"]) = ""
        THEN ~buildcall.executor.invoked
        ELSE /\ buildcall.executor.invoked
             /\ buildcall.executor.image = Strip(buildcall.meta["build_image"])
             /\ buildcall.executor.cmd = NoList

\* C16 happens: the executor was invoked with the image of a manifest that
\* has no build_command while a default command is configured.
ImageOnlyManifestBuilt ==
    /\ CalledWithoutOverride
    /\ DOMAIN buildcall.meta = {"build_image"}
    /\ buildcall.DEFAULT_CMD = "make html"
    /\ buildcall.executor.invoked
    /\ buildcall.executor.image = "meta/image"
    /\ buildcall.executor.cmd = NoList

\* The changed-file set of the run is unknown: git sync skipped, no origin
\* (local copy), a fresh clone, no last successful update with a commit
\* hash, or a diff that failed.
ChangedFilesUnknown ==
    \/ buildcall.skip_git
    \/ ~buildcall.git_origin
    \/ buildcall.clone_status = "cloned"
    \/ buildcall.last # "hash"
    \/ buildcall.diff.error

\* C17: when the build stage invokes the executor and the changed-file set
\* is unknown, the executor receives the list ["*"], CHANGED_FILES = "*".
UnknownChangesMeanAll ==
    (buildcall.pc = "called" /\ ChangedFilesUnknown) =>
        /\ ~buildcall.executor.raised
        /\ buildcall.executor.invoked =>
              /\ buildcall.executor.changed_files = List(<<"*">>)
              /\ buildcall.executor.CHANGED_FILES = "*"

\* C17 happens: the executor was invoked after a diff against the commit
\* of the last successful update failed.
BuiltAfterFailedDiff ==
    /\ buildcall.pc = "called"
    /\ ~buildcall.skip_git /\ buildcall.git_origin /\ ~buildcall.rebuild_all
    /\ buildcall.clone_status = "exists"
    /\ buildcall.last = "hash"
    /\ buildcall.diff.error
    /\ buildcall.changed_files = NoList
    /\ buildcall.executor.invoked
    /\ buildcall.executor.CHANGED_FILES = "*"

\* The positions of a run inside store().
StorePcs == {"store", "store_lock", "store_rm", "store_copy", "store_defaults",
             "store_version"}

\* C18: a run whose course has skip_build_failsafes works in PUBLISH: its
\* steps write neither BUILD nor STORE, and it never enters store(); a run
\* whose course has not works in BUILD, leaves PUBLISH alone and calls
\* store() once its configuration has loaded and validated.
FailsafeFlagChoosesTree ==
    [][\A w \in Workers :
          (worker[w].pc \in TryPcs \cup {"store_lock"} /\ worker'[w] # worker[w]) =>
              LET c == Course(w) IN
              IF worker[w].course.skip_build_failsafes
              THEN /\ fs'[c][STORE] = fs[c][STORE]
                   /\ fs'[c][BUILD] = fs[c][BUILD]
                   /\ worker'[w].pc \notin StorePcs
                   /\ worker'[w].wrote \subseteq {PUBLISH}
                   /\ worker'[w].pc = "success" => worker[w].pc = "config"
              ELSE /\ fs'[c][PUBLISH] = fs[c][PUBLISH]
                   /\ worker'[w].wrote \subseteq {BUILD, STORE}
                   /\ (worker[w].pc = "config" /\ worker'[w].config = "ok") =>
                          worker'[w].pc = "store"
                   /\ worker'[w].pc = "success" => worker[w].pc = "store_version"]_vars

\* C18 happens: a run of a course with skip_build_failsafes got through
\* its stages having written PUBLISH only, with nothing in STORE.
BuiltStraightIntoPublish ==
    \E w \in Workers :
        /\ worker[w].course.skip_build_failsafes
        /\ worker[w].pc = "success"
        /\ worker[w].wrote = {PUBLISH}
        /\ fs[Course(w)][PUBLISH].dir # 0
        /\ fs[Course(w)][STORE] = EmptyTree

\* A call of the hook by a git service (no logged-in user) that hook()
\* turns away: the service is unknown, the verification against the
\* webhook secret fails, or the pushed branch is not the course's.
TurnedAway(req) ==
    /\ req.method = "POST"
    /\ ~req.authenticated
    /\ \/ req.service = "unknown"
       \/ req.secret /\ ~req.verified
       \/ req.branch = "other"

\* C19: a webhook call whose pushed branch is known and is not the
\* course's branch, one that fails verification and one from an unknown
\* git service are answered 400 or 403 and create no update, enqueue no
\* job, change no status and touch no tree.
TurnedAwayHookChangesNothing ==
    [][(hookcall' # hookcall /\ TurnedAway(hookcall'.request)) =>
          /\ hookcall'.status \in {400, 403}
          /\ UNCHANGED <<updates, inflight, queue, tasklocks, worker, fs,
                         filelock>>]_vars

\* C19 happens: while an update of the course is RUNNING, a verified push
\* to another branch was answered 400.
OtherBranchTurnedAway ==
    /\ hookcall.status = 400
    /\ hookcall.request.branch = "other"
    /\ hookcall.request.verified
    /\ \E i \in DOMAIN updates : updates[i].status = RUNNING
    /\ Len(updates) = 1

\* C20: notify_update is called in a run only after the run set its
\* update's status to SUCCESS, and only when the course updates
\* automatically, has a remote id, the job did not pass skip_notify and
\* FRONTEND_URL is set; the update of a run that called it is never saved
\* FAILED or SKIPPED, also when the notification fails.
NotifyOnlyAfterSuccess ==
    \A w \in Workers :
        /\ worker[w].notified =>
              /\ worker[w].status = SUCCESS
              /\ worker[w].notify.update_automatically
              /\ worker[w].notify.remote_id
              /\ ~worker[w].job.params.skip_notify
              /\ worker[w].notify.frontend_url
              /\ worker[w].pc \in {"final", "clean"}
              /\ worker[w].pc = "clean" =>
                    updates[worker[w].update].status = SUCCESS
        /\ (worker[w].pc = "clean"
               /\ updates[worker[w].update].status \in {FAILED, SKIPPED}) =>
              /\ ~worker[w].notified
              /\ worker[w].notify.outcome = "none"

\* C20 happens: the notification of a run failed and the run's update was
\* saved SUCCESS.
FailedNotifyKeptSuccess ==
    \E w \in Workers :
        /\ worker[w].pc = "clean"
        /\ worker[w].notified
        /\ worker[w].notify.outcome \in {"failed", "raised"}
        /\ updates[worker[w].update].status = SUCCESS

\* The positions of a run that has selected its update.
SelectedPcs == TryPcs \cup {"run", "store_lock", "success", "notify", "final", "clean"}

\* C21: a run that selected an update leaves build_course only through the
\* cleanup, which starts only after the finally clause saved the terminal
\* status; the cleanup, however it goes, changes no update and no exception
\* of it leaves build_course (an exception that does leave is the one
\* notify_update raised).
CleanupLastAndSwallowed ==
    [][\A w \in Workers :
          /\ (worker[w].pc \in SelectedPcs /\ worker'[w].pc = "idle") =>
                /\ worker[w].pc = "clean"
                /\ worker'[w].task_error => worker[w].notify.outcome = "raised"
          /\ (worker[w].pc # "clean" /\ worker'[w].pc = "clean") =>
                worker[w].pc = "final"
          /\ (worker[w].pc = "clean" /\ worker'[w] # worker[w]) =>
                /\ updates' = updates
                /\ updates[worker[w].update].status = worker[w].status
                /\ worker[w].status \in {SUCCESS, FAILED}]_vars

\* C21 happens: a run whose stage failed has saved FAILED and is at its
\* cleanup.
CleanupAfterFailure ==
    \E w \in Workers :
        /\ worker[w].pc = "clean"
        /\ updates[worker[w].update].status = FAILED
        /\ worker[w].wrote # {}

\* C22: after configure_graders reported an error the run is on its way
\* out: it does not take the STORE lock, has written no STORE artifact, and
\* its update is saved FAILED.
ConfigureErrorStoresNothing ==
    \A w \in Workers :
        worker[w].configured = "errors" =>
            /\ worker[w].pc \in {"final", "clean"}
            /\ filelock[Course(w)][STORE] # w
            /\ STORE \notin worker[w].wrote
            /\ worker[w].status # SUCCESS
            /\ ~worker[w].notified
            /\ worker[w].pc = "clean" =>
                  updates[worker[w].update].status = FAILED

\* C22 happens: configure_graders reported errors for a built and
\* validated course, and the update was saved FAILED.
ConfigureErrorFailed ==
    \E w \in Workers :
        /\ worker[w].configured = "errors"
        /\ worker[w].config = "ok"
        /\ worker[w].pc = "clean"
        /\ updates[worker[w].update].status = FAILED
        /\ fs[Course(w)][STORE] = EmptyTree

\* The stage a run goes on to when the stage at pc succeeded or was skipped.
StageAfter(w, pc) ==
    CASE pc = "git" -> "build"
      [] pc = "build" -> "check"
      [] pc = "check" -> "version"
      [] pc = "version" -> "config"
      [] pc = "config" -> (IF worker[w].course.skip_build_failsafes
                           THEN "success" ELSE "store")
      [] pc = "store" -> "store_lock"
      [] pc = "store_lock" -> "store_rm"
      [] pc = "store_rm" -> "store_copy"
      [] pc = "store_copy" -> "store_defaults"
      [] pc = "store_defaults" -> "store_version"
      [] pc = "store_version" -> "success"
      [] OTHER -> "final"

\* A stage of the run of worker w has failed.
StageFailed(w) ==
    \/ worker[w].failed # "none"
    \/ ~is_self_contained(worker[w].tree)
    \/ worker[w].config \in {"ConfigError", "ValidationError"}
    \/ worker[w].configured = "errors"

\* C23: the stages of a run follow each other in the order git sync,
\* build, self-containment check, (version id,) configuration load,
\* store; a stage is followed by the next one or by the finally clause,
\* a run one of whose stages failed starts no further stage, and the
\* status becomes SUCCESS only after the last stage.
StagesInOrder ==
    [][\A w \in Workers :
          /\ (worker[w].pc \in TryPcs \cup {"store_lock"}
                 /\ worker'[w].pc # worker[w].pc) =>
                worker'[w].pc \in {StageAfter(w, worker[w].pc), "final"}
          /\ StageFailed(w)' =>
                /\ worker'[w].pc \in {"final", "clean"}
                /\ worker'[w].status # SUCCESS
          /\ (worker'[w].status = SUCCESS /\ worker[w].status # SUCCESS) =>
                /\ worker[w].pc = "success"
                /\ worker[w].config = "ok"
                /\ ~worker[w].course.skip_build_failsafes =>
                      worker[w].configured = "ok"]_vars

\* C23 happens: the build of a run failed after its git sync, and the run
\* went to its end without a check, a configuration load or a store.
BuildFailedRunEnded ==
    \E w \in Workers :
        /\ worker[w].failed = "build"
        /\ worker[w].pc = "clean"
        /\ worker[w].config = "none"
        /\ worker[w].configured = "none"
        /\ updates[worker[w].update].status = FAILED

\* C24: a build_course that finds no PENDING update of its course prunes
\* and returns: the prune changes no status and no tree, and the return
\* follows the fetch at once, with no update, tree, file lock or queue
\* changed, no stage, cleanup or notification run.
NothingPendingReturns ==
    [][\A w \in Workers :
          /\ (worker[w].pc = "prune" /\ worker'[w] # worker[w]) =>
                /\ \A i \in DOMAIN updates :
                      updates'[i].status = updates[i].status
                /\ UNCHANGED <<fs, filelock, queue>>
          /\ (/\ worker[w].pc = "fetch"
              /\ worker'[w] # worker[w]
              /\ {i \in CourseRows(Course(w)) : updates[i].status = PENDING} = {}) =>
                /\ worker'[w] = IdleWorker
                /\ Course(w) \notin tasklocks'
                /\ UNCHANGED <<updates, fs, filelock, queue>>]_vars

\* C24 happens: a job of a course whose updates are all finished is at its
\* fetch.
FetchFindsNothing ==
    \E w \in Workers :
        /\ worker[w].pc = "fetch"
        /\ CourseRows(Course(w)) # {}
        /\ \A i \in CourseRows(Course(w)) :
              updates[i].status \in {SUCCESS, FAILED, SKIPPED}

StoreWritePcs == {"store_rm", "store_copy", "store_defaults", "store_version"}
PromotionPcs == {"load", "rename_dir", "rename_defaults", "rename_version", "copy_back"}

\* The STORE tree of course c changes in this step.
StoreChanges(c) == fs'[c][STORE] # fs[c][STORE]

\* C26: a worker between the first and the last write of store() holds the
\* STORE lock of its course, a caller of publish() that loads or renames
\* STORE holds it too, so no promotion loads or renames while a store() of
\* the same course is between its writes; and every step that changes a
\* STORE tree is taken while its lock is held, a step of store() by the
\* worker that holds it.
StoreWritesAndPromotionExclude ==
    /\ [](/\ \A w \in Workers :
                (worker[w].pc \in StoreWritePcs /\ BuildSource(w) = BUILD) =>
                    filelock[Course(w)][STORE] = w
          /\ \A p \in Publishers :
                pub[p].pc \in PromotionPcs => filelock[pub[p].course][STORE] = p
          /\ \A p \in Publishers, w \in Workers :
                (pub[p].pc \in PromotionPcs /\ pub[p].course = Course(w)) =>
                    worker[w].pc \notin StoreWritePcs)
    /\ [][\A c \in Courses :
              StoreChanges(c) =>
                  /\ filelock[c][STORE] # "free"
                  /\ \A w \in Workers :
                        worker'[w] # worker[w] => filelock[c][STORE] = w]_vars

\* A store() has deleted the old files and not yet copied the new ones while
\* a caller of publish() that found a version to promote waits for the lock.
PromotionWaitsForStore ==
    \E w \in Workers, p \in Publishers :
        /\ worker[w].pc = "store_copy"
        /\ pub[p].pc = "store_lock"
        /\ pub[p].course = Course(w)
        /\ filelock[Course(w)][STORE] = w

\* Nothing is going on for course c: no run, no job, no call of publish(),
\* no copy-back thread.
Quiet(c) ==
    /\ \A w \in Workers : worker[w].pc = "idle"
    /\ \A j \in Jobs : queue[j] = 0
    /\ \A p \in Publishers : pub[p].pc = "idle"
    /\ copyback[c] = IdleCopy

\* C27: once publish(), its copy-back and the store() of the second update
\* have all finished, STORE holds the version that store() wrote (the
\* directory, the exercise-defaults and the version id of update 2).
NewestStoredSurvivesCopyBack ==
    (Quiet("c1") /\ Len(updates) = 2 /\ updates[2].status = SUCCESS) =>
        fs["c1"][STORE] = Tree(2)

\* The callers whose call has renamed STORE onto PUBLISH.
Promoters == {p \in Publishers : pub[p].call \in pub[p].promoted}

\* C28: of two publish() calls that both compared the version ids before
\* either took the STORE lock, at most one renames; when one has renamed,
\* neither raises; and once both calls and the copy-back are over, PUBLISH
\* holds the three artifacts of the stored version.
ConcurrentPublishIsSafe ==
    /\ Cardinality(Promoters) <= 1
    /\ Promoters # {} => \A p \in Publishers : pub[p].raised = {}
    /\ (Promoters # {} /\ Quiet("c1")) => fs["c1"][PUBLISH] = Tree(2)

\* Every stage of the run of worker w that was not skipped has succeeded:
\* no git sync or build failed, no stage raised and no wait for the lock
\* timed out; the tree was checked and passed; the configuration loaded and
\* validated; store() configured the graders and wrote STORE, unless the
\* course skips the build failsafes.
RunSucceeded(w) ==
    /\ worker[w].failed = "none"
    /\ worker[w].tree # {} /\ is_self_contained(worker[w].tree)
    /\ worker[w].config = "ok"
    /\ \/ worker[w].course.skip_build_failsafes
       \/ worker[w].configured = "ok" /\ STORE \in worker[w].wrote

\* C29: the status of a run is SUCCESS only when every stage that was not
\* skipped succeeded and nothing raised before the assignment, and the
\* status of an update becomes SUCCESS only in the finally clause of such a
\* run, for the update the run selected.
SuccessOnlyAfterEveryStage ==
    /\ [](\A w \in Workers : worker[w].status = SUCCESS => RunSucceeded(w))
    /\ [][\A i \in DOMAIN updates :
              (updates[i].status # SUCCESS /\ updates'[i].status = SUCCESS) =>
                  \E w \in Workers :
                      /\ worker[w].update = i
                      /\ worker[w].pc = "final"
                      /\ RunSucceeded(w)]_vars

\* An update was saved SUCCESS by a run that skipped git and stored the
\* tree.
SavedSuccessAfterStore ==
    \E w \in Workers :
        /\ worker[w].pc = "clean"
        /\ updates[worker[w].update].status = SUCCESS
        /\ worker[w].job.params.skip_git
        /\ STORE \in worker[w].wrote

Queued(c) == {j \in Jobs : j.course = c /\ queue[j] > 0}
Serving(c, i) ==
    {w \in Workers :
        /\ worker[w].pc # "idle"
        /\ Course(w) = c
        /\ \/ worker[w].pc \in {"lock", "retry", "prune", "fetch"}
           \/ i \in worker[w].pending}

\* C31: in every state each PENDING update of a course has a push_event job
\* of that course, queued, requeued or running, that was enqueued after the
\* update was created.
PendingUpdateHasJob ==
    \A c \in Courses : \A i \in PendingRows(c) :
        Queued(c) # {} \/ Serving(c, i) # {}

====
